---- MODULE Spec2Model ----
(***************************************************************************)
(* A model of app_final.py: the NYC collision report dashboard.            *)
(*                                                                         *)
(* Python values are represented as follows.                               *)
(*   str            a sequence of one-character strings                    *)
(*   None           the empty sequence; a present optional value v is <<v>>*)
(*   NaN / NaT      the empty sequence (a missing cell)                    *)
(*   number cell    its decimal digits, as a str                           *)
(*   Timestamp      <<"Timestamp", year, month, day>>                      *)
(*   DataFrame      [columns |-> sequence of column names,                 *)
(*                   index |-> sequence of row labels,                     *)
(*                   data |-> sequence of rows], a row being a function    *)
(*                   from the column names to cells                        *)
(***************************************************************************)
EXTENDS Integers, Sequences, FiniteSets, TLC

VARIABLES
    remote,   \* what pd.read_csv(DATA_PATH) would parse: the remote table
    cache,    \* lru_cache of load_full_data: None or <<df>>
    fetches,  \* number of times load_full_data read DATA_PATH
    meta,     \* meta = load_metadata(), set at import time
    ui,       \* the values of the five dropdowns and the search input
    store,    \* dcc.Store "store".data: None or <<json>>
    alert,    \* the alert's children and is_open
    figs,     \* the five figures last returned by update_graphs
    pending,  \* a change of store.data waits for update_graphs
    op,       \* the callback that ran last, and how it ended
    arg,      \* the arguments of the last call: for a Generate click, the State values
    ret       \* the value a function called on its own returned

vars == <<remote, cache, fetches, meta, ui, store, alert, figs, pending, op, arg, ret>>

appvars == <<remote, cache, fetches, meta, ui, store, alert, figs, pending>>

----------------------------------------------------------------------------
(* Bounds of the model *)

MaxFrags == 3
MaxRows == 2
MaxFetches == 3

----------------------------------------------------------------------------
(* Python helpers *)

None == <<>>

Some(v) == <<v>>

NaN == <<>>

Min(a, b) == IF a < b THEN a ELSE b

Range(s) == {s[i] : i \in 1..Len(s)}

\* The characters in use, in code point order.
Ascii ==
    <<"\t", " ", "-", ".", "0", "1", "2", "3", "4", "5", "6", "7", "8", "9", ":",
      "A", "B", "C", "D", "E", "F", "G", "H", "I", "J", "K", "L", "M",
      "N", "O", "P", "Q", "R", "S", "T", "U", "V", "W", "X", "Y", "Z",
      "a", "b", "c", "d", "e", "f", "g", "h", "i", "j", "k", "l", "m",
      "n", "o", "p", "q", "r", "s", "t", "u", "v", "w", "x", "y", "z">>

CodePoints == [c \in Range(Ascii) |-> CHOOSE i \in 1..Len(Ascii) : Ascii[i] = c]

\* ord(c), as the place of c among the characters in use
Ord(c) == CodePoints[c]

IsUpper(c) == Ord(c) >= Ord("A") /\ Ord(c) <= Ord("Z")

IsDigit(c) == c \in Range(Ascii) /\ Ord(c) >= Ord("0") /\ Ord(c) <= Ord("9")

IsSpace(c) == c \in {" ", "\t"}

\* str.lower()
lower(s) ==
    [i \in 1..Len(s) |->
        IF IsUpper(s[i]) THEN Ascii[Ord(s[i]) + (Ord("a") - Ord("A"))] ELSE s[i]]

\* str.strip()
RECURSIVE lstrip(_)
lstrip(s) == IF s # <<>> /\ IsSpace(Head(s)) THEN lstrip(Tail(s)) ELSE s

RECURSIVE rstrip(_)
rstrip(s) ==
    IF s # <<>> /\ IsSpace(s[Len(s)]) THEN rstrip(SubSeq(s, 1, Len(s) - 1)) ELSE s

strip(s) == rstrip(lstrip(s))

\* str(n) of a non-negative int
RECURSIVE str(_)
str(n) ==
    IF n < 10 THEN <<Ascii[Ord("0") + n]>>
    ELSE str(n \div 10) \o <<Ascii[Ord("0") + (n % 10)]>>

\* int(s) of a string of digits
RECURSIVE int(_)
int(s) ==
    IF s = <<>> THEN 0
    ELSE 10 * int(SubSeq(s, 1, Len(s) - 1)) + (Ord(s[Len(s)]) - Ord("0"))

MatchAt(needle, hay, i) == \A k \in 1..Len(needle) : hay[i + k - 1] = needle[k]

\* needle in hay, for two strings: a left to right scan
RECURSIVE FindFrom(_, _, _)
FindFrom(needle, hay, i) ==
    IF i + Len(needle) - 1 > Len(hay) THEN FALSE
    ELSE IF MatchAt(needle, hay, i) THEN TRUE
    ELSE FindFrom(needle, hay, i + 1)

StrIn(needle, hay) == FindFrom(needle, hay, 1)

\* a < b for two strings
RECURSIVE StrLess(_, _)
StrLess(a, b) ==
    IF b = <<>> THEN FALSE
    ELSE IF a = <<>> THEN TRUE
    ELSE IF Head(a) # Head(b) THEN Ord(Head(a)) < Ord(Head(b))
    ELSE StrLess(Tail(a), Tail(b))

\* sorted(list) for a list of strings: insertion sort
InsertStr(x, t) ==
    LET k == Cardinality({j \in 1..Len(t) : ~StrLess(x, t[j])})
    IN  SubSeq(t, 1, k) \o <<x>> \o SubSeq(t, k + 1, Len(t))

RECURSIVE sorted(_)
sorted(s) == IF s = <<>> THEN <<>> ELSE InsertStr(Head(s), sorted(Tail(s)))

\* the elements of a set of integers in increasing order
RECURSIVE Ascending(_)
Ascending(S) ==
    IF S = {} THEN <<>>
    ELSE LET least == CHOOSE a \in S : \A b \in S : a <= b
         IN  <<least>> \o Ascending(S \ {least})

\* Series.unique(): the distinct values in order of first appearance
RECURSIVE unique(_)
unique(s) ==
    IF s = <<>> THEN <<>>
    ELSE LET init == unique(SubSeq(s, 1, Len(s) - 1))
             last == s[Len(s)]
         IN  IF \E i \in 1..Len(init) : init[i] = last THEN init
             ELSE Append(init, last)

\* Series.dropna()
RECURSIVE dropna(_)
dropna(s) ==
    IF s = <<>> THEN <<>>
    ELSE IF Head(s) = NaN THEN dropna(Tail(s))
    ELSE <<Head(s)>> \o dropna(Tail(s))

\* value in list
In(v, list) == \E i \in 1..Len(list) : list[i] = v

RECURSIVE Concat(_)
Concat(ss) == IF ss = <<>> THEN <<>> ELSE Head(ss) \o Concat(Tail(ss))

----------------------------------------------------------------------------
(* The strings of the program and of the data *)

MANHATTAN == <<"M", "A", "N", "H", "A", "T", "T", "A", "N">>
BRONX == <<"B", "R", "O", "N", "X">>
PEDESTRIAN == <<"P", "E", "D", "E", "S", "T", "R", "I", "A", "N">>
BICYCLIST == <<"B", "I", "C", "Y", "C", "L", "I", "S", "T">>
PASSENGER == <<"P", "A", "S", "S", "E", "N", "G", "E", "R">>
DRIVER == <<"D", "R", "I", "V", "E", "R">>
KILLED == <<"K", "I", "L", "L", "E", "D">>
INJURED == <<"I", "N", "J", "U", "R", "E", "D">>
UNSPECIFIED == <<"U", "n", "s", "p", "e", "c", "i", "f", "i", "e", "d">>

\* injury_keywords, in insertion order
injury_keywords ==
    << [keyword |-> lower(PEDESTRIAN), values |-> <<PEDESTRIAN>>],
       [keyword |-> <<"c", "y", "c", "l", "i", "s", "t">>, values |-> <<BICYCLIST>>],
       [keyword |-> <<"m", "o", "t", "o", "r", "i", "s", "t">>,
        values |-> <<PASSENGER, DRIVER>>],
       [keyword |-> lower(KILLED), values |-> <<KILLED>>],
       [keyword |-> lower(INJURED), values |-> <<INJURED>>] >>

----------------------------------------------------------------------------
(* parse_search_query *)

\* the borough loop without b.lower(): the names are looked up in upper case
ParseBoroughsCased(s, metadata) ==
    LET Hit(b) == StrIn(b, s) IN SelectSeq(metadata.boroughs, Hit)

\* lines 79-81: for b in metadata["boroughs"]: if b.lower() in s: append(b)
ParseBoroughs(s, metadata) ==
    LET Hit(b) == StrIn(lower(b), s) IN SelectSeq(metadata.boroughs, Hit)

\* lines 84-86: for year in metadata["years"]: if str(year) in s: append(year)
ParseYears(s, metadata) ==
    LET Hit(year) == StrIn(str(year), s) IN SelectSeq(metadata.years, Hit)

\* lines 96-100: the values of one keyword that metadata["injuries"] holds
KeywordValues(entry, s, metadata) ==
    IF StrIn(entry.keyword, s)
    THEN LET Known(val) == In(val, metadata.injuries) IN SelectSeq(entry.values, Known)
    ELSE <<>>

ParseInjuries(s, metadata) ==
    Concat([i \in 1..Len(injury_keywords) |->
                KeywordValues(injury_keywords[i], s, metadata)])

\* the final test with the injury slot forgotten
AnyValueButInjuries(parsed_filters) ==
    parsed_filters.boroughs # <<>> \/ parsed_filters.years # <<>>

\* any(parsed_filters.values())
AnyValue(parsed_filters) ==
    \/ parsed_filters.boroughs # <<>>
    \/ parsed_filters.years # <<>>
    \/ parsed_filters.injuries # <<>>

\* search_query is None or <<string>>; the result is None or <<parsed_filters>>
parse_search_query(search_query, metadata) ==
    IF search_query = None \/ search_query[1] = <<>> \/ strip(search_query[1]) = <<>>
    THEN None
    ELSE LET s == lower(search_query[1])
             parsed_filters ==
                 [boroughs |-> ParseBoroughs(s, metadata),
                  years |-> ParseYears(s, metadata),
                  injuries |-> ParseInjuries(s, metadata)]
         IN  IF AnyValue(parsed_filters) THEN Some(parsed_filters) ELSE None

----------------------------------------------------------------------------
(* pandas: dates *)

NaT == <<>>

Timestamp(y, m, d) == <<"Timestamp", y, m, d>>

IsTimestamp(c) == c # NaT /\ c[1] = "Timestamp"

IsLeap(y) == (y % 4 = 0 /\ y % 100 # 0) \/ y % 400 = 0

DaysIn(y, m) ==
    IF m = 2 THEN (IF IsLeap(y) THEN 29 ELSE 28)
    ELSE IF m \in {4, 6, 9, 11} THEN 30 ELSE 31

MidnightSuffix == <<"T", "0", "0", ":", "0", "0", ":", "0", "0", ".", "0", "0", "0">>

\* "YYYY-MM-DD", with or without the midnight time of the ISO format
IsDateStr(c) ==
    /\ Len(c) = 10 \/ (Len(c) = 23 /\ SubSeq(c, 11, 23) = MidnightSuffix)
    /\ \A i \in {1, 2, 3, 4, 6, 7, 9, 10} : IsDigit(c[i])
    /\ c[5] = "-" /\ c[8] = "-"
    /\ int(SubSeq(c, 6, 7)) \in 1..12
    /\ int(SubSeq(c, 9, 10)) \in 1..DaysIn(int(SubSeq(c, 1, 4)), int(SubSeq(c, 6, 7)))

\* pd.to_datetime(cell, errors="coerce")
to_datetime(c) ==
    IF c = NaN THEN NaT
    ELSE IF IsTimestamp(c) THEN c
    ELSE IF IsDateStr(c)
         THEN Timestamp(int(SubSeq(c, 1, 4)), int(SubSeq(c, 6, 7)), int(SubSeq(c, 9, 10)))
    ELSE NaT

Pad2(n) == IF n < 10 THEN <<"0">> \o str(n) ELSE str(n)

\* date_format="iso"
isoformat(ts) ==
    str(ts[2]) \o <<"-">> \o Pad2(ts[3]) \o <<"-">> \o Pad2(ts[4]) \o MidnightSuffix

\* Timestamp.day_name() as 0 = Sunday .. 6 = Saturday
MonthKey == <<0, 3, 2, 5, 0, 3, 5, 1, 4, 6, 2, 4>>

day_name(ts) ==
    LET y == IF ts[3] < 3 THEN ts[2] - 1 ELSE ts[2]
    IN  (y + (y \div 4) - (y \div 100) + (y \div 400) + MonthKey[ts[3]] + ts[4]) % 7

\* "HH:MM" or "HH:MM:SS"
IsTimeStr(c) ==
    /\ Len(c) = 5 \/ (Len(c) = 8 /\ c[6] = ":" /\ IsDigit(c[7]) /\ IsDigit(c[8])
                                   /\ int(SubSeq(c, 7, 8)) < 60)
    /\ \A i \in {1, 2, 4, 5} : IsDigit(c[i])
    /\ c[3] = ":"
    /\ int(SubSeq(c, 1, 2)) < 24 /\ int(SubSeq(c, 4, 5)) < 60

\* lines 423-424: the hour of a CRASH TIME cell, NaN when unparsable
hour_of(c) == IF c # NaN /\ IsTimeStr(c) THEN <<int(SubSeq(c, 1, 2))>> ELSE NaN

----------------------------------------------------------------------------
(* pandas: frames *)

HasCol(df, c) == In(c, df.columns)

Column(df, c) == [i \in 1..Len(df.data) |-> df.data[i][c]]

\* df[mask]: the rows whose place in the boolean mask holds True, under their
\* index labels
Select(df, mask) ==
    LET Kept(i) == mask[i]
        pos == SelectSeq([i \in 1..Len(df.data) |-> i], Kept)
    IN  [columns |-> df.columns,
         index |-> [k \in 1..Len(pos) |-> df.index[pos[k]]],
         data |-> [k \in 1..Len(pos) |-> df.data[pos[k]]]]

\* df[c] = pd.to_datetime(df[c], errors="coerce")
CoerceDates(df, c) ==
    [df EXCEPT !.data =
        [i \in 1..Len(df.data) |-> [df.data[i] EXCEPT ![c] = to_datetime(@)]]]

\* Series.dt.year.isin(years) for one cell
YearIsin(cell, years) == cell # NaT /\ In(cell[2], years)

\* to_json(date_format="iso", orient="split")
JsonCell(c) == IF c # NaN /\ IsTimestamp(c) THEN isoformat(c) ELSE c

df_to_json(df) ==
    [columns |-> df.columns,
     index |-> df.index,
     data |-> [i \in 1..Len(df.data) |->
                  [j \in 1..Len(df.columns) |-> JsonCell(df.data[i][df.columns[j]])]]]

\* pd.read_json(orient="split")
json_to_df(js) ==
    [columns |-> js.columns,
     index |-> js.index,
     data |-> [i \in 1..Len(js.data) |->
                  [c \in Range(js.columns) |->
                      js.data[i][CHOOSE j \in 1..Len(js.columns) : js.columns[j] = c]]]]

----------------------------------------------------------------------------
(* load_metadata *)

ChunkSize == 10

EmptyMetadata ==
    [boroughs |-> <<>>, years |-> <<>>, vehicle_types |-> <<>>,
     factors |-> <<>>, injuries |-> <<>>]

\* sorted(df_meta[c].dropna().unique().tolist()) if c in df_meta else []
Distinct(df_meta, c) ==
    IF HasCol(df_meta, c) THEN sorted(unique(dropna(Column(df_meta, c))))
    ELSE <<>>

Years(df_meta) ==
    IF HasCol(df_meta, "CRASH_DATE")
    THEN LET dates == dropna([i \in 1..Len(df_meta.data) |->
                                 to_datetime(df_meta.data[i]["CRASH_DATE"])])
         IN  Ascending({dates[i][2] : i \in 1..Len(dates)})
    ELSE <<>>

\* source: the remote table; ok: whether reading its first chunk worked
load_metadata(source, ok) ==
    IF ~ok THEN EmptyMetadata
    ELSE LET n == Min(ChunkSize, Len(source.data))
             df_meta == [columns |-> source.columns,
                         index |-> SubSeq(source.index, 1, n),
                         data |-> SubSeq(source.data, 1, n)]
         IN  [boroughs |-> Distinct(df_meta, "BOROUGH"),
              years |-> Years(df_meta),
              vehicle_types |-> Distinct(df_meta, "VEHICLE TYPE CODE 1"),
              factors |-> Distinct(df_meta, "CONTRIBUTING FACTOR VEHICLE 1"),
              injuries |-> Distinct(df_meta, "PERSON_INJURY")]

----------------------------------------------------------------------------
(* apply_filters *)

\* the caller's frame had apply_filters worked on df itself: line 113 would
\* have replaced its CRASH_DATE column
InputCoercedInPlace(df, years) ==
    IF years # <<>> /\ HasCol(df, "CRASH_DATE") THEN CoerceDates(df, "CRASH_DATE")
    ELSE df

\* line 108: the frame the caller passed, as the call leaves it: the work is
\* done on df.copy()
InputAfterApply(df, years) == df

\* lines 110-111, 115-120: one isin filter
IsinStep(out, values, c) ==
    IF values # <<>> /\ HasCol(out, c)
    THEN Select(out, [i \in 1..Len(out.data) |-> In(out.data[i][c], values)])
    ELSE out

\* the year step without the test for rows whose date did not parse
YearStepKeepsNaT(out, years) ==
    IF years # <<>> /\ HasCol(out, "CRASH_DATE")
    THEN LET coerced == CoerceDates(out, "CRASH_DATE")
         IN  Select(coerced,
                    [i \in 1..Len(coerced.data) |->
                        \/ coerced.data[i]["CRASH_DATE"] = NaT
                        \/ YearIsin(coerced.data[i]["CRASH_DATE"], years)])
    ELSE out

\* lines 112-114
YearStep(out, years) ==
    IF years # <<>> /\ HasCol(out, "CRASH_DATE")
    THEN LET coerced == CoerceDates(out, "CRASH_DATE")
         IN  Select(coerced,
                    [i \in 1..Len(coerced.data) |->
                        YearIsin(coerced.data[i]["CRASH_DATE"], years)])
    ELSE out

apply_filters(df, boroughs, years, vehicles, factors, injuries) ==
    LET out1 == IsinStep(df, boroughs, "BOROUGH")
        out2 == YearStep(out1, years)
        out3 == IsinStep(out2, vehicles, "VEHICLE TYPE CODE 1")
        out4 == IsinStep(out3, factors, "CONTRIBUTING FACTOR VEHICLE 1")
    IN  IsinStep(out4, injuries, "PERSON_INJURY")

----------------------------------------------------------------------------
(* update_graphs *)

Fig(title, data) == [title |-> title, data |-> data]

\* px.scatter(title="No Data Loaded/Filtered")
empty == Fig("No Data Loaded/Filtered", <<>>)

\* counts per distinct non-null value of a column, keys as given
ValueCounts(df, c, keys) ==
    [k \in 1..Len(keys) |->
        LET Is(row) == row[c] = keys[k] IN <<keys[k], Len(SelectSeq(df.data, Is))>>]

\* lines 396-401: df.groupby("BOROUGH").size()
BarFig(df) ==
    IF HasCol(df, "BOROUGH")
    THEN Fig("Crashes by Borough",
             ValueCounts(df, "BOROUGH",
                         sorted(unique(dropna(Column(df, "BOROUGH"))))))
    ELSE Fig("Crashes by Borough (Data Missing)", <<>>)

\* lines 405-409: px.pie(df, names="PERSON_INJURY")
PieFig(df) ==
    IF HasCol(df, "PERSON_INJURY")
    THEN Fig("Person Injury Types",
             ValueCounts(df, "PERSON_INJURY",
                         unique(dropna(Column(df, "PERSON_INJURY")))))
    ELSE Fig("Person Injury Types (Data Missing)", <<>>)

MonthNo(ts) == ts[2] * 12 + (ts[3] - 1)

\* resample("ME").size(): one bucket per month from the first to the last date
Resample(dates) ==
    IF dates = <<>> THEN <<>>
    ELSE LET months == {MonthNo(dates[i]) : i \in 1..Len(dates)}
             first == CHOOSE a \in months : \A b \in months : a <= b
             last == CHOOSE a \in months : \A b \in months : a >= b
         IN  [k \in 1..(last - first + 1) |->
                 LET Is(ts) == MonthNo(ts) = first + k - 1
                 IN  <<(first + k - 1) \div 12, ((first + k - 1) % 12) + 1,
                       Len(SelectSeq(dates, Is))>>]

\* lines 412-419
LineFig(df) ==
    IF HasCol(df, "CRASH_DATE")
    THEN Fig("Crashes Over Time",
             Resample(dropna([i \in 1..Len(df.data) |->
                                 to_datetime(df.data[i]["CRASH_DATE"])])))
    ELSE Fig("Crashes Over Time (Data Missing)", <<>>)

\* line 426: pivot_table(index="HOUR", columns="DAY", values="COLLISION_ID",
\* aggfunc="count").fillna(0), as its <<hour, day, count>> cells row by row
Pivot(df) ==
    LET hour(i) == hour_of(df.data[i]["CRASH TIME"])
        day(i) == to_datetime(df.data[i]["CRASH DATE"])
        keyed == {i \in 1..Len(df.data) : hour(i) # NaN /\ day(i) # NaT}
        hours == Ascending({hour(i)[1] : i \in keyed})
        days == Ascending({day_name(day(i)) : i \in keyed})
    IN  [k \in 1..(Len(hours) * Len(days)) |->
            LET h == hours[((k - 1) \div Len(days)) + 1]
                d == days[((k - 1) % Len(days)) + 1]
            IN  <<h, d, Cardinality({i \in keyed :
                                       /\ hour(i)[1] = h
                                       /\ day_name(day(i)) = d
                                       /\ df.data[i]["COLLISION_ID"] # NaN})>>]

\* line 422: the columns the heatmap branch tests for
HeatGuard(df) == HasCol(df, "CRASH TIME") /\ HasCol(df, "CRASH DATE")

\* line 426: pivot_table raises KeyError for a values column the frame lacks
HeatRaises(df) == HeatGuard(df) /\ ~HasCol(df, "COLLISION_ID")

\* lines 422-430
HeatFig(df) ==
    IF HeatGuard(df)
    THEN Fig("Heatmap: Hour vs Day", Pivot(df))
    ELSE Fig("Heatmap (Data Missing)", <<>>)

\* the map's dropna with the longitude left out of the subset
MapRowsLatitudeOnly(df) ==
    Select(df, [i \in 1..Len(df.data) |-> df.data[i]["LATITUDE"] # NaN])

\* line 434: df.dropna(subset=["LATITUDE", "LONGITUDE"])
MapRows(df) ==
    Select(df, [i \in 1..Len(df.data) |->
                   df.data[i]["LATITUDE"] # NaN /\ df.data[i]["LONGITUDE"] # NaN])

\* lines 433-442
MapFig(df) ==
    IF HasCol(df, "LATITUDE") /\ HasCol(df, "LONGITUDE") /\ HasCol(df, "BOROUGH")
    THEN LET df2 == MapRows(df)
         IN  Fig("Crash Locations",
                 [i \in 1..Len(df2.data) |->
                     <<df2.data[i]["LATITUDE"], df2.data[i]["LONGITUDE"],
                       df2.data[i]["BOROUGH"]>>])
    ELSE Fig("Crash Locations (Data Missing)", <<>>)

Figures(bar, pie, line, heat, map_fig) ==
    [bar |-> bar, pie |-> pie, line |-> line, heat |-> heat, map |-> map_fig]

\* json_data is None or <<json>>.  The result: the exception that escaped
\* ("" when none did) and the five figures returned
update_graphs(json_data) ==
    IF json_data = None
    THEN [raised |-> "", figs |-> Figures(empty, empty, empty, empty, empty)]
    ELSE LET df == json_to_df(json_data[1])
         IN  IF HeatRaises(df)
             THEN [raised |-> "KeyError", figs |-> None]
             ELSE [raised |-> "",
                   figs |-> Figures(BarFig(df), PieFig(df), LineFig(df),
                                    HeatFig(df), MapFig(df))]

----------------------------------------------------------------------------
(* The data the model is run on *)

AllCols ==
    <<"COLLISION_ID", "CRASH_DATE", "BOROUGH", "LATITUDE", "LONGITUDE",
      "PERSON_INJURY", "VEHICLE TYPE CODE 1", "CONTRIBUTING FACTOR VEHICLE 1",
      "CRASH TIME", "CRASH DATE">>

FilterCols ==
    {"BOROUGH", "CRASH_DATE", "VEHICLE TYPE CODE 1",
     "CONTRIBUTING FACTOR VEHICLE 1", "PERSON_INJURY"}

Sedan == <<"S", "e", "d", "a", "n">>
Taxi == <<"T", "a", "x", "i">>
Speeding == <<"S", "p", "e", "e", "d", "i", "n", "g">>
Alcohol == <<"A", "l", "c", "o", "h", "o", "l">>

Row(id, date, borough, lat, lon, injury, vehicle, factor, time, date2) ==
    [c \in Range(AllCols) |->
        CASE c = "COLLISION_ID" -> id
          [] c = "CRASH_DATE" -> date
          [] c = "BOROUGH" -> borough
          [] c = "LATITUDE" -> lat
          [] c = "LONGITUDE" -> lon
          [] c = "PERSON_INJURY" -> injury
          [] c = "VEHICLE TYPE CODE 1" -> vehicle
          [] c = "CONTRIBUTING FACTOR VEHICLE 1" -> factor
          [] c = "CRASH TIME" -> time
          [] c = "CRASH DATE" -> date2]

Jan15 == <<"2", "0", "2", "3", "-", "0", "1", "-", "1", "5">>
Dec31 == <<"2", "0", "2", "2", "-", "1", "2", "-", "3", "1">>
Feb30 == <<"2", "0", "2", "2", "-", "0", "2", "-", "3", "0">>
Mar01 == <<"2", "0", "2", "3", "-", "0", "3", "-", "0", "1">>

RowPool ==
    << Row(<<"1">>, Jan15, MANHATTAN, <<"4", "0">>, <<"7", "3">>, BICYCLIST,
           Sedan, Speeding, <<"0", "8", ":", "3", "0">>, Jan15),
       Row(NaN, <<"u", "n", "k", "n", "o", "w", "n">>, NaN, <<"4", "1">>,
           <<"7", "4">>, INJURED, Sedan, NaN, <<"n", "o", "o", "n">>, NaN),
       Row(<<"3">>, Dec31, BRONX, NaN, <<"7", "4">>, KILLED,
           Taxi, Alcohol, <<"2", "3", ":", "5", "9">>, Dec31),
       Row(<<"4">>, Feb30, MANHATTAN, <<"4", "0">>, NaN, PEDESTRIAN,
           Taxi, Speeding, <<"0", "8", ":", "0", "5">>, Mar01) >>

\* the sequences over 1..n of length at most k
SeqsUpTo(n, k) == UNION {[1..len -> 1..n] : len \in 0..k}

\* runs of at most k rows of the pool, taken in a circle from any row
Runs(k) ==
    {[i \in 1..len |-> ((first + i - 2) % Len(RowPool)) + 1] :
        first \in 1..Len(RowPool), len \in 0..k}

\* a frame of the given columns whose rows are taken from the pool
Table(columns, picks) ==
    [columns |-> columns,
     index |-> [i \in 1..Len(picks) |-> i - 1],
     data |-> [i \in 1..Len(picks) |->
                  [c \in Range(columns) |-> RowPool[picks[i]][c]]]]

Without(missing) == LET Keep(c) == c \notin missing IN SelectSeq(AllCols, Keep)

\* a option list's selections: each subsequence of it
Selections(options) ==
    {LET Keep(v) == v \in S IN SelectSeq(options, Keep) : S \in SUBSET Range(options)}

Fragments ==
    << <<" ">>, <<"M", "a", "n", "h", "a", "t", "t", "a", "n">>, BRONX,
       <<"2", "0">>, <<"2", "3">>, <<"2", "0", "2", "2">>,
       <<"c", "y", "c", "l", "i", "s", "t">>,
       <<"M", "o", "t", "o", "r", "i", "s", "t">>, lower(KILLED),
       lower(PEDESTRIAN), <<"x", "y", "z">> >>

\* search inputs: None, or a few fragments typed one after the other
Queries ==
    {None} \cup
    {Some(Concat([i \in 1..Len(f) |-> Fragments[f[i]]])) :
        f \in SeqsUpTo(Len(Fragments), MaxFrags)}

Metadatas ==
    {EmptyMetadata,
     [EmptyMetadata EXCEPT !.boroughs = <<MANHATTAN>>, !.years = <<2023>>,
                           !.injuries = <<BICYCLIST>>],
     [EmptyMetadata EXCEPT !.boroughs = <<BRONX>>, !.years = <<2022>>,
                           !.injuries = <<DRIVER, KILLED>>],
     [EmptyMetadata EXCEPT !.boroughs = <<BRONX, MANHATTAN>>,
                           !.years = <<2022, 2023>>,
                           !.injuries = <<BICYCLIST, DRIVER, INJURED, KILLED,
                                          PASSENGER, PEDESTRIAN, UNSPECIFIED>>]}

\* frames that lack at most k of the columns in cols
Tables(cols, k) ==
    {Table(Without(missing), picks) :
        missing \in {m \in SUBSET cols : Cardinality(m) <= k},
        picks \in Runs(MaxRows)}

FilterSpecs ==
    [boroughs : {<<>>, <<MANHATTAN>>, <<BRONX, MANHATTAN>>},
     years : {<<>>, <<2023>>, <<2022, 2023>>},
     vehicles : {<<>>, <<Taxi>>},
     factors : {<<>>, <<Speeding>>},
     injuries : {<<>>, <<INJURED, KILLED>>}]

----------------------------------------------------------------------------
(* load_full_data, under lru_cache(maxsize=1) *)

\* the loader with the error swallowed: a failed read returns an empty frame,
\* which lru_cache keeps
load_full_data_swallows(cached, source, ok) ==
    IF cached # None
    THEN [raised |-> "", df |-> cached, cache |-> cached, fetched |-> FALSE]
    ELSE IF ok
    THEN [raised |-> "", df |-> Some(source), cache |-> Some(source), fetched |-> TRUE]
    ELSE [raised |-> "", df |-> Some([source EXCEPT !.index = <<>>, !.data = <<>>]),
          cache |-> Some([source EXCEPT !.index = <<>>, !.data = <<>>]),
          fetched |-> TRUE]

\* the loader without its lru_cache: every call reads the remote table
load_full_data_uncached(cached, source, ok) ==
    IF ok
    THEN [raised |-> "", df |-> Some(source), cache |-> Some(source), fetched |-> TRUE]
    ELSE [raised |-> "FileNotFoundError", df |-> None, cache |-> cached,
          fetched |-> TRUE]

\* cached: the cache; source: the remote table; ok: whether read_csv works.
\* A call that raises leaves nothing in the cache.
load_full_data(cached, source, ok) ==
    IF cached # None
    THEN [raised |-> "", df |-> cached, cache |-> cached, fetched |-> FALSE]
    ELSE IF ok
    THEN [raised |-> "", df |-> Some(source), cache |-> Some(source), fetched |-> TRUE]
    ELSE [raised |-> "FileNotFoundError", df |-> None, cache |-> None,
          fetched |-> TRUE]

----------------------------------------------------------------------------
(* The callbacks *)

Op(name, outcome) == [name |-> name, outcome |-> outcome]

Alert(children, is_open) == [children |-> children, is_open |-> is_open]

NoFigure == Fig("", <<>>)

\* the reset values with the search left as None instead of ""
ResetControlsNoText ==
    [borough |-> <<>>, year |-> <<>>, vehicle |-> <<>>, factor |-> <<>>,
     injury |-> <<>>, search |-> None]

\* line 298: the values reset_all returns for the dropdowns and the search
ResetControls ==
    [borough |-> <<>>, year |-> <<>>, vehicle |-> <<>>, factor |-> <<>>,
     injury |-> <<>>, search |-> Some(<<>>)]

\* lines 295-299
reset_all(n_clicks) ==
    IF n_clicks # 0
    THEN /\ ui' = ResetControls
         /\ store' = None
         /\ alert' = [alert EXCEPT !.is_open = FALSE]
         /\ pending' = TRUE
         /\ op' = Op("reset_all", "returned")
         /\ UNCHANGED <<remote, cache, fetches, meta, figs, arg, ret>>
    ELSE /\ op' = Op("reset_all", "PreventUpdate")
         /\ UNCHANGED <<appvars, arg, ret>>

\* lines 330-338: the value used for one of borough, year, injury
final(parsed_search_filters, key, selected) ==
    IF parsed_search_filters # None THEN parsed_search_filters[1][key] ELSE selected

\* lines 323-360.  controls: the dropdown and search values the browser sends
\* as State with the click; ok: whether read_csv works if it is called
filter_data_and_autofilter(n_generate, controls, ok) ==
    IF n_generate = 0
    THEN /\ op' = Op("filter_data_and_autofilter", "PreventUpdate")
         /\ UNCHANGED <<appvars, arg, ret>>
    ELSE LET parsed_search_filters == parse_search_query(controls.search, meta)
             final_boroughs == final(parsed_search_filters, "boroughs", controls.borough)
             final_years == final(parsed_search_filters, "years", controls.year)
             final_injuries == final(parsed_search_filters, "injuries", controls.injury)
             loaded == load_full_data(cache, remote, ok)
         IN  /\ loaded.fetched => fetches < MaxFetches
             /\ fetches' = IF loaded.fetched THEN fetches + 1 ELSE fetches
             /\ ui' = [controls EXCEPT !.borough = final_boroughs,
                                       !.year = final_years,
                                       !.injury = final_injuries]
             /\ pending' = TRUE
             /\ arg' = controls
             /\ IF loaded.raised = ""
                THEN LET df == loaded.df[1]
                         filtered == apply_filters(df, final_boroughs, final_years,
                                                   controls.vehicle, controls.factor,
                                                   final_injuries)
                     IN  /\ cache' = Some(InputAfterApply(df, final_years))
                         /\ store' = Some(df_to_json(filtered))
                         /\ alert' = Alert([text |-> "Report generated successfully",
                                            records |-> Len(filtered.data)], TRUE)
                         /\ op' = Op("filter_data_and_autofilter", "returned")
                ELSE /\ cache' = loaded.cache
                     /\ store' = None
                     /\ alert' = Alert([text |->
                                            "Could not load full data from remote URL.",
                                        records |-> 0], TRUE)
                     /\ op' = Op("filter_data_and_autofilter", "FileNotFoundError")
             /\ UNCHANGED <<remote, meta, figs, ret>>

\* lines 374-445, run by Dash after store.data was set
UpdateGraphs ==
    /\ pending
    /\ pending' = FALSE
    /\ LET r == update_graphs(store)
       IN  IF r.raised = ""
           THEN /\ figs' = r.figs
                /\ op' = Op("update_graphs", "returned")
           ELSE /\ figs' = figs
                /\ op' = Op("update_graphs", r.raised)
    /\ UNCHANGED <<remote, cache, fetches, meta, ui, store, alert, arg, ret>>

\* Dash runs update_graphs as soon as a callback has set store.data; the next
\* click is served after it
Idle == ~pending

Reset == Idle /\ \E n_clicks \in {0, 1} : reset_all(n_clicks)

\* what the user can have picked in a dropdown: nothing, or its first option
Pick(options) == {<<>>} \cup {<<options[i]>> : i \in 1..Min(1, Len(options))}

Controls(borough, year, vehicle, factor, injury, search) ==
    [borough |-> borough, year |-> year, vehicle |-> vehicle, factor |-> factor,
     injury |-> injury, search |-> search]

\* a few settings of the controls: nothing picked, the first option of every
\* dropdown, or a year alone; with nothing typed, a borough, or no known word
FewControls ==
    {Controls(b, y, v, f, i, s) :
        b \in Pick(meta.boroughs) \ {<<>>}, y \in Pick(meta.years) \ {<<>>},
        v \in Pick(meta.vehicle_types) \ {<<>>}, f \in Pick(meta.factors) \ {<<>>},
        i \in Pick(meta.injuries) \ {<<>>},
        s \in {None, Some(Fragments[2]), Some(Fragments[11])}} \cup
    {Controls(<<>>, y, <<>>, <<>>, <<>>, s) :
        y \in Pick(meta.years), s \in {None, Some(Fragments[2]), Some(Fragments[11])}}

\* what the user can have typed
Typed ==
    {None, Some(<<>>), Some(<<" ">>), Some(Fragments[2]), Some(Fragments[11]),
     Some(Fragments[6] \o Fragments[1] \o Fragments[7]),
     Some(Fragments[3] \o Fragments[9] \o Fragments[5])}

\* every selection of boroughs, years and injuries, with anything typed
ManyControls ==
    {Controls(b, y, v, f, i, s) :
        b \in Selections(meta.boroughs), y \in Selections(meta.years),
        v \in Pick(meta.vehicle_types), f \in Pick(meta.factors),
        i \in Pick(meta.injuries), s \in Typed}

\* read_csv is only reached, and so can only fail, while nothing is cached
Outcomes == IF cache = None THEN BOOLEAN ELSE {TRUE}

GenerateWith(settings) ==
    /\ Idle
    /\ \/ filter_data_and_autofilter(0, arg, TRUE)
       \/ \E controls \in settings, ok \in Outcomes :
              filter_data_and_autofilter(1, controls, ok)

Generate == GenerateWith(FewControls)

\* the first Generate click of a session, with any setting of the controls
FirstGenerate == fetches = 0 /\ GenerateWith(ManyControls)

\* the tables the dashboard is run against
Remotes ==
    {Table(AllCols, <<1, 2>>), Table(AllCols, <<3, 4>>),
     Table(Without({"COLLISION_ID"}), <<1, 3>>)}

\* lines 136, 210-226, 240, 272: the state once the module is imported and the
\* page is laid out
Init ==
    /\ remote \in Remotes
    /\ cache = None
    /\ fetches = 0
    /\ \E ok \in BOOLEAN : meta = load_metadata(remote, ok)
    /\ ui = Controls(<<>>, <<>>, <<>>, <<>>, <<>>, None)
    /\ store = None
    /\ alert = Alert([text |-> "", records |-> 0], FALSE)
    /\ figs = Figures(NoFigure, NoFigure, NoFigure, NoFigure, NoFigure)
    /\ pending = TRUE
    /\ op = Op("import", "returned")
    /\ arg = Controls(<<>>, <<>>, <<>>, <<>>, <<>>, None)
    /\ ret = None

Next == Reset \/ Generate \/ UpdateGraphs

Spec == Init /\ [][Next]_vars

\* one Generate click after the page has loaded
NextMerge == FirstGenerate \/ UpdateGraphs

SpecMerge == Init /\ [][NextMerge]_vars

----------------------------------------------------------------------------
(* The functions on their own *)

\* the application at rest, while a function is studied
AtRest ==
    /\ remote = Table(AllCols, <<>>)
    /\ cache = None
    /\ fetches = 0
    /\ meta = EmptyMetadata
    /\ ui = Controls(<<>>, <<>>, <<>>, <<>>, <<>>, None)
    /\ store = None
    /\ alert = Alert([text |-> "", records |-> 0], FALSE)
    /\ figs = Figures(NoFigure, NoFigure, NoFigure, NoFigure, NoFigure)
    /\ pending = FALSE
    /\ op = Op("call", "pending")
    /\ ret = None

Called == op = Op("call", "pending")

Returned(name) == op = Op(name, "returned")

InitParse ==
    /\ AtRest
    /\ arg \in [search_query : Queries, metadata : Metadatas]

ParseCall ==
    /\ Called
    /\ ret' = parse_search_query(arg.search_query, arg.metadata)
    /\ op' = Op("parse_search_query", "returned")
    /\ UNCHANGED <<appvars, arg>>

SpecParse == InitParse /\ [][ParseCall]_vars

InitFilter ==
    /\ AtRest
    /\ arg \in [df : Tables(FilterCols, 1), spec : FilterSpecs]

ApplyCall ==
    /\ Called
    /\ ret' = [out |-> apply_filters(arg.df, arg.spec.boroughs, arg.spec.years,
                                     arg.spec.vehicles, arg.spec.factors,
                                     arg.spec.injuries),
               df |-> InputAfterApply(arg.df, arg.spec.years)]
    /\ op' = Op("apply_filters", "returned")
    /\ UNCHANGED <<appvars, arg>>

SpecFilter == InitFilter /\ [][ApplyCall]_vars

InitGraphs ==
    /\ AtRest
    /\ arg \in {None} \cup {Some(df_to_json(df)) : df \in Tables(Range(AllCols), 2)}

GraphsCall ==
    /\ Called
    /\ ret' = update_graphs(arg)
    /\ op' = Op("update_graphs", "returned")
    /\ UNCHANGED <<appvars, arg>>

SpecGraphs == InitGraphs /\ [][GraphsCall]_vars

----------------------------------------------------------------------------
(* Properties of parse_search_query *)

\* needle occurs in hay at some place
Occurs(needle, hay) ==
    \E i \in 1..(Len(hay) - Len(needle) + 1) :
        SubSeq(hay, i, i + Len(needle) - 1) = needle

\* the text is None, empty or made of white space only
Blank(search_query) ==
    search_query = None \/ \A i \in 1..Len(search_query[1]) : IsSpace(search_query[1][i])

BoroughsNamed(text, metadata) ==
    {b \in Range(metadata.boroughs) : Occurs(lower(b), lower(text))}

YearsNamed(text, metadata) ==
    {y \in Range(metadata.years) : Occurs(str(y), text)}

InjuriesNamed(text, metadata) ==
    {v \in Range(metadata.injuries) :
        \E k \in 1..Len(injury_keywords) :
            /\ Occurs(injury_keywords[k].keyword, lower(text))
            /\ v \in Range(injury_keywords[k].values)}

\* C5: parse_search_query returns None exactly when the text is None, empty or
\* white space only, or when no borough, year or injury slot receives a value;
\* any other result has a slot that is not empty.
C5_NullExactly ==
    Returned("parse_search_query") =>
        /\ ret = None <=>
              \/ Blank(arg.search_query)
              \/ /\ BoroughsNamed(arg.search_query[1], arg.metadata) = {}
                 /\ YearsNamed(arg.search_query[1], arg.metadata) = {}
                 /\ InjuriesNamed(arg.search_query[1], arg.metadata) = {}
        /\ ret # None =>
              \/ ret[1].boroughs # <<>>
              \/ ret[1].years # <<>>
              \/ ret[1].injuries # <<>>

\* a text with words in it, none of them known, comes back as None
C5_Witness ==
    /\ Returned("parse_search_query")
    /\ ret = None
    /\ ~Blank(arg.search_query)
    /\ arg.metadata.boroughs # <<>>

\* C6: in a result that is not None, the borough slot holds exactly the
\* metadata boroughs named in the text whatever the case, the year slot exactly
\* the metadata years whose digits occur in the text, and the injury slot
\* exactly the values, known to the metadata, of the keywords that occur in
\* the text in lower case.
C6_SlotsExact ==
    Returned("parse_search_query") /\ ret # None =>
        /\ Range(ret[1].boroughs) = BoroughsNamed(arg.search_query[1], arg.metadata)
        /\ Range(ret[1].years) = YearsNamed(arg.search_query[1], arg.metadata)
        /\ Range(ret[1].injuries) = InjuriesNamed(arg.search_query[1], arg.metadata)

\* "Manhattan", a year and "cyclist" fill the three slots
C6_Witness ==
    /\ Returned("parse_search_query")
    /\ ret # None
    /\ ret[1].boroughs = <<MANHATTAN>>
    /\ ret[1].years # <<>>
    /\ ret[1].injuries = <<BICYCLIST>>

----------------------------------------------------------------------------
(* Properties of apply_filters *)

\* the place of the row labelled l in the frame
RowAt(df, l) == df.data[CHOOSE i \in 1..Len(df.index) : df.index[i] = l]

\* the year a CRASH_DATE cell stands for, if any
YearOf(cell) ==
    IF cell # NaN /\ Len(cell) >= 10 /\ IsDateStr(SubSeq(cell, 1, 10))
    THEN {int(SubSeq(cell, 1, 4))}
    ELSE {}

\* the row's value for the column is one of the slot's values
Member(df, row, c, slot) ==
    /\ HasCol(df, c)
    /\ IF c = "CRASH_DATE" THEN YearOf(row[c]) \cap Range(slot) # {}
       ELSE row[c] \in Range(slot)

Slots(spec) ==
    << <<"BOROUGH", spec.boroughs>>, <<"CRASH_DATE", spec.years>>,
       <<"VEHICLE TYPE CODE 1", spec.vehicles>>,
       <<"CONTRIBUTING FACTOR VEHICLE 1", spec.factors>>,
       <<"PERSON_INJURY", spec.injuries>> >>

\* the row satisfies every slot that is not empty
SatisfiesAll(df, row, spec) ==
    \A k \in 1..5 :
        Slots(spec)[k][2] # <<>> => Member(df, row, Slots(spec)[k][1], Slots(spec)[k][2])

\* the row satisfies every slot that is not empty and whose column the frame has
SatisfiesPresent(df, row, spec) ==
    \A k \in 1..5 :
        Slots(spec)[k][2] # <<>> /\ HasCol(df, Slots(spec)[k][1]) =>
            Member(df, row, Slots(spec)[k][1], Slots(spec)[k][2])

AllEmpty(spec) == \A k \in 1..5 : Slots(spec)[k][2] = <<>>

\* C1 as claimed: the rows returned are exactly the rows whose value is a
\* member of every slot that is not empty, for every dataset; with all slots
\* empty the row count is the dataset's.
C1_Original ==
    Returned("apply_filters") =>
        /\ \A l \in Range(arg.df.index) :
              l \in Range(ret.out.index) <=> SatisfiesAll(arg.df, RowAt(arg.df, l), arg.spec)
        /\ AllEmpty(arg.spec) => Len(ret.out.data) = Len(arg.df.data)

\* C1 as amended: the rows returned are exactly the rows whose value is a
\* member of every non-empty slot whose column the dataset has; a slot whose
\* column is absent restricts nothing; with all slots empty the row count is
\* the dataset's.
C1_Amended ==
    Returned("apply_filters") =>
        /\ Range(ret.out.index) \subseteq Range(arg.df.index)
        /\ Len(ret.out.index) = Cardinality(Range(ret.out.index))
        /\ \A l \in Range(arg.df.index) :
              l \in Range(ret.out.index) <=>
                  SatisfiesPresent(arg.df, RowAt(arg.df, l), arg.spec)
        /\ AllEmpty(arg.spec) => Len(ret.out.data) = Len(arg.df.data)

\* a year filter keeps one row and drops another, one of them with a date
\* that does not parse, while the borough slot meets a frame without boroughs
C1_Witness ==
    /\ Returned("apply_filters")
    /\ arg.spec.boroughs # <<>> /\ ~HasCol(arg.df, "BOROUGH")
    /\ arg.spec.years # <<>>
    /\ Len(ret.out.data) = 1
    /\ Len(arg.df.data) = 2
    /\ \E i \in 1..2 : to_datetime(arg.df.data[i]["CRASH_DATE"]) = NaT

----------------------------------------------------------------------------
(* Properties of update_graphs *)

Missing(title) == title \in
    {"Crashes by Borough (Data Missing)", "Person Injury Types (Data Missing)",
     "Crashes Over Time (Data Missing)", "Heatmap (Data Missing)",
     "Crash Locations (Data Missing)"}

View == json_to_df(arg[1])

Lacks(cols) == \E c \in cols : ~HasCol(View, c)

\* C7 as claimed: whatever fields the view lacks, no exception escapes
\* update_graphs, and each derivation is a "data missing" figure exactly when
\* a field it needs is absent.
C7_Claim ==
    Returned("update_graphs") /\ arg # None =>
        /\ ret.raised = ""
        /\ Missing(ret.figs.bar.title) <=> Lacks({"BOROUGH"})
        /\ Missing(ret.figs.pie.title) <=> Lacks({"PERSON_INJURY"})
        /\ Missing(ret.figs.line.title) <=> Lacks({"CRASH_DATE"})
        /\ Missing(ret.figs.heat.title) <=>
              Lacks({"CRASH TIME", "CRASH DATE", "COLLISION_ID"})
        /\ Missing(ret.figs.map.title) <=> Lacks({"LATITUDE", "LONGITUDE", "BOROUGH"})

HasCoordinates(row) == row["LATITUDE"] # NaN /\ row["LONGITUDE"] # NaN

Located == {i \in 1..Len(View.data) : HasCoordinates(View.data[i])}

MapDrawn ==
    /\ Returned("update_graphs")
    /\ arg # None
    /\ ret.raised = ""
    /\ ~Missing(ret.figs.map.title)

Point(row) == <<row["LATITUDE"], row["LONGITUDE"], row["BOROUGH"]>>

PointsAreTheLocated ==
    /\ Len(ret.figs.map.data) = Cardinality(Located)
    /\ \A i \in Located : Point(View.data[i]) \in Range(ret.figs.map.data)
    /\ \A k \in 1..Len(ret.figs.map.data) :
          \E i \in Located : Point(View.data[i]) = ret.figs.map.data[k]

CappedAt(cap) ==
    /\ Len(View.data) <= cap => PointsAreTheLocated
    /\ Len(View.data) > cap => Len(ret.figs.map.data) = cap

----------------------------------------------------------------------------
(* Properties of the callbacks *)

Clicked == op.name = "filter_data_and_autofilter" /\ op.outcome # "PreventUpdate"

C4_Claim ==
    Clicked =>
        LET parsed == parse_search_query(arg.search, meta)
            Found(key) == parsed # None /\ parsed[1][key] # <<>>
        IN  /\ ui.borough = IF Found("boroughs") THEN parsed[1].boroughs ELSE arg.borough
            /\ ui.year = IF Found("years") THEN parsed[1].years ELSE arg.year
            /\ ui.injury = IF Found("injuries") THEN parsed[1].injuries ELSE arg.injury
            /\ ui.vehicle = arg.vehicle
            /\ ui.factor = arg.factor

\* C9: the cached dataset keeps the rows, columns and cells it was loaded
\* with, whatever is generated or reset; a view put in the store has the
\* dataset's columns and some of its rows.
C9_CacheUntouched ==
    cache # None =>
        /\ cache[1] = remote
        /\ store # None =>
              /\ store[1].columns = remote.columns
              /\ Range(store[1].index) \subseteq Range(remote.index)

\* a year filter has run on a cached dataset and has dropped a row
C9_Witness ==
    /\ cache # None
    /\ store # None
    /\ ui.year # <<>>
    /\ Len(store[1].data) < Len(remote.data)
    /\ fetches >= 1

\* C10: a Reset click empties the five dropdowns, the search text and the
\* store and closes the alert; update_graphs, run on the emptied store, gives
\* the "No Data Loaded/Filtered" figure five times and reads no dataset; a
\* Reset callback without a click count changes nothing.
C10_Reset ==
    [][ /\ op' = Op("reset_all", "returned") =>
              /\ ui'.borough = <<>> /\ ui'.year = <<>> /\ ui'.vehicle = <<>>
              /\ ui'.factor = <<>> /\ ui'.injury = <<>>
              /\ ui'.search = Some(<<>>)
              /\ store' = None
              /\ ~alert'.is_open
              /\ pending'
              /\ cache' = cache /\ fetches' = fetches
        /\ op' = Op("reset_all", "PreventUpdate") => UNCHANGED appvars
        /\ op'.name = "update_graphs" /\ store = None =>
              /\ op'.outcome = "returned"
              /\ \A f \in {figs'.bar, figs'.pie, figs'.line, figs'.heat, figs'.map} :
                    f = Fig("No Data Loaded/Filtered", <<>>)
              /\ cache' = cache /\ fetches' = fetches ]_vars

\* the figures after a Reset that followed a generated report
C10_Witness ==
    /\ op = Op("update_graphs", "returned")
    /\ store = None
    /\ cache # None
    /\ ui.search = Some(<<>>)
    /\ ~alert.is_open
    /\ alert.children.records > 0
    /\ figs.bar = Fig("No Data Loaded/Filtered", <<>>)

====
